---- MODULE Spec2Model ----
(***************************************************************************)
(* A model of parse_data.py: the download / parse / make / get pipeline    *)
(* for the daily leaderboard pages and the yearly stats pages.             *)
(*                                                                         *)
(* Text is modelled as a sequence of one-character strings, so that the    *)
(* slicing, stripping, splitting and numeric conversions of the code are   *)
(* computed, not assumed.  An HTML document is modelled by the structure   *)
(* BeautifulSoup recovers from it (the elements the code navigates).       *)
(* The working directory is the directory of parse_data.py, so that the    *)
(* directory made by mkdir is the one './daily_data/' names.               *)
(***************************************************************************)
EXTENDS Integers, Sequences, FiniteSets, TLC

VARIABLES
    pc,           \* position of the (single) thread of control
    op,           \* the top-level call in progress, or the last one made
    year, day,    \* loop variables of download_daily / download_yearly
    inflight,     \* number of HTTP requests issued and not yet answered
    reqLog,       \* requests issued by the current download, in order
    slept,        \* seconds slept by the current download
    dirs,         \* the store directories that exist
    daily_data,   \* ./daily_data/ : file name -> file content
    yearly_data,  \* ./yearly_data/ : file name -> file content
    parquet,      \* the artifact files: file name -> blob
    ret,          \* outcome of the last completed top-level call
    listing,      \* the order in which the file system lists a directory
    prev,         \* history: the files as they were when the current call began
    made,         \* history: the table returned by the last completed make
    faults,       \* history: responses so far that were not the nominal page
    calls,        \* history: top-level calls so far
    arg, res      \* input and output of the pure-function specifications

vars == <<pc, op, year, day, inflight, reqLog, slept, dirs, daily_data,
          yearly_data, parquet, ret, listing, prev, made, faults, calls, arg, res>>

(***************************************************************************)
(* Bounds of the model.                                                    *)
(***************************************************************************)
MaxCalls == 2        \* top-level calls in one behaviour
MaxFaults == 1       \* responses in one behaviour that deviate from nominal
MaxEntries == 101    \* entry blocks of a page given to the daily extractor
MaxTuples == 2       \* tuples given to the yearly table build

(***************************************************************************)
(* Program constants.                                                      *)
(***************************************************************************)
FirstYear == 2015    \* default of first_year
LastDay == 25        \* range(1, 25 + 1)
TierSplit == 99      \* 'first' if i > 99 else 'second'
SleepSeconds == 1    \* sleep(1)
ZFillWidth == 2      \* str(day).zfill(2)
YearChars == 4       \* file[:4]
TimeChars == 8       \* [-8:]
TokenCount == 3      \* split()[:3]

(***************************************************************************)
(* Text helpers: Python str operations on sequences of characters.         *)
(***************************************************************************)
Digits == <<"0", "1", "2", "3", "4", "5", "6", "7", "8", "9">>

DigitSet == {Digits[i] : i \in 1..10}

IsDigit(c) == c \in DigitSet

DigitVals == [c \in DigitSet |-> (CHOOSE i \in 1..10 : Digits[i] = c) - 1]

DigitVal(c) == DigitVals[c]

IsSpace(c) == c = " "

RECURSIVE Str(_)
\* str(n) for n >= 0
Str(n) == IF n < 10 THEN <<Digits[n + 1]>>
          ELSE Str(n \div 10) \o <<Digits[(n % 10) + 1]>>

RECURSIVE ZFill(_, _)
\* s.zfill(w)
ZFill(s, w) == IF Len(s) >= w THEN s ELSE ZFill(<<"0">> \o s, w)

\* s[a:b] with 0 <= a, 0 <= b (Python slice, zero-based, end exclusive)
Slice(s, a, b) ==
    LET hi == IF b > Len(s) THEN Len(s) ELSE b
    IN  IF a >= hi THEN <<>> ELSE SubSeq(s, a + 1, hi)

\* s[:-1]
DropLast(s) == IF Len(s) = 0 THEN <<>> ELSE SubSeq(s, 1, Len(s) - 1)

\* s[-n:]
LastN(s, n) == IF Len(s) <= n THEN s ELSE SubSeq(s, Len(s) - n + 1, Len(s))

RECURSIVE LStrip(_)
LStrip(s) == IF s # <<>> /\ IsSpace(Head(s)) THEN LStrip(Tail(s)) ELSE s

RECURSIVE RStrip(_)
RStrip(s) == IF s # <<>> /\ IsSpace(s[Len(s)]) THEN RStrip(DropLast(s)) ELSE s

\* s.strip()
Strip(s) == RStrip(LStrip(s))

RECURSIVE FirstToken(_)
\* the leading run of non-space characters of s
FirstToken(s) == IF s = <<>> \/ IsSpace(Head(s)) THEN <<>>
                 ELSE <<Head(s)>> \o FirstToken(Tail(s))

RECURSIVE Split(_)
\* s.split(): the maximal runs of non-space characters, in order
Split(s) ==
    LET t == LStrip(s)
    IN  IF t = <<>> THEN <<>>
        ELSE LET w == FirstToken(t)
             IN  <<w>> \o Split(SubSeq(t, Len(w) + 1, Len(t)))

IsNumeric(s) == s # <<>> /\ \A i \in 1..Len(s) : IsDigit(s[i])

RECURSIVE Decimal(_, _)
\* the number the first n digits of s write
Decimal(s, n) == IF n = 0 THEN 0 ELSE 10 * Decimal(s, n - 1) + DigitVal(s[n])

\* pd.to_numeric on a decimal numeral, with or without a minus sign
ToNumeric(s) == IF s # <<>> /\ Head(s) = "-"
                THEN 0 - Decimal(Tail(s), Len(s) - 1)
                ELSE Decimal(s, Len(s))

\* pd.to_timedelta on an HH:MM:SS string, in seconds
ToTimedelta(s) ==
    3600 * ToNumeric(Slice(s, 0, 2)) + 60 * ToNumeric(Slice(s, 3, 5))
        + ToNumeric(Slice(s, 6, 8))

RECURSIVE Flatten(_)
\* the concatenation of a sequence of sequences (records.extend in a loop)
Flatten(ss) == IF ss = <<>> THEN <<>> ELSE Head(ss) \o Flatten(Tail(ss))

(***************************************************************************)
(* Files and documents.                                                    *)
(***************************************************************************)
HtmlSuffix == <<".", "h", "t", "m", "l">>

StatsSuffix == <<"s", "t", "a", "t", "s">> \o HtmlSuffix

\* f'./daily_data/{year}-{str(day).zfill(2)}.html' with year, day integers
DailyFile(y, d) == Str(y) \o <<"-">> \o ZFill(Str(d), ZFillWidth) \o HtmlSuffix

\* f'./yearly_data/{year}-stats.html' with year an integer
YearlyFile(y) == Str(y) \o <<"-">> \o StatsSuffix

\* str(req.content): req.content is a bytes object, so the text written is its
\* repr, b'...' around the escaped body, not the body itself.
StrOfBytes(content) == [repr |-> TRUE, doc |-> content]

\* The text a verbatim copy of the response body would be.
Verbatim(content) == [repr |-> FALSE, doc |-> content]

\* BeautifulSoup(open(file), 'html.parser'): the element tree of the text.  The
\* b' and ' around a repr are stray text outside every element.  (The bodies of
\* the model hold no character that repr escapes.)
BeautifulSoup(text) == text.doc

\* One leaderboard entry: the text of its leaderboard-position child and of
\* its leaderboard-time child.
Entry(rank, clock) ==
    [position |-> <<" ", " ">> \o Str(rank) \o <<")">>,
     time |-> <<"D", "e", "c", " ", "0", "1", " ", " ">> \o clock]

Clock1 == <<"0", "0", ":", "1", "2", ":", "3", "4">>

Clock2 == <<"0", "1", ":", "0", "0", ":", "0", "7">>

\* A daily page whose main element holds n div entries.
DailyPage(n, clock) ==
    [main |-> TRUE, divs |-> [i \in 1..n |-> Entry(i, clock)]]

NominalDaily == DailyPage(1, Clock1)

AltDaily == DailyPage(2, Clock2)

NoMainDaily == [main |-> FALSE, divs |-> <<>>]

\* A yearly page: the text of each anchor under main.pre.
YearlyPage(anchors) == [main |-> TRUE, pre |-> TRUE, anchors |-> anchors]

Anchor1 == <<" ", "1", " ", " ", "5", "0", " ", " ", "1", "0", " ", "*", "*">>

Anchor2 == <<"2", " ", "7", " ", "0", " ", "*">>

NominalYearly == YearlyPage(<<Anchor1>>)

AltYearly == YearlyPage(<<Anchor2, Anchor1>>)

NoMainYearly == [main |-> FALSE, pre |-> FALSE, anchors |-> <<>>]

NoPreYearly == [main |-> TRUE, pre |-> FALSE, anchors |-> <<>>]

(***************************************************************************)
(* The network: what a request may be answered with.                       *)
(***************************************************************************)
Response(kind, content) == [kind |-> kind, content |-> content]

\* The years a call may name, and the days whose requests may be answered
\* with something else than the nominal page.
LastYear == FirstYear + 1

Years == FirstYear..LastYear

FlakyDays == {1}

FlakySteps == {1, LastDay}

\* What a whole call may be answered with besides the nominal page: a page
\* without its container, a non-OK status (whose body is never read), an
\* exception of requests.get (the content stands for no response at all).
DailyUpsets ==
    {Response("ok", NoMainDaily), Response("status", AltDaily),
     Response("exception", NoMainDaily)}

YearlyUpsets ==
    {Response("ok", NoMainYearly), Response("ok", NoPreYearly),
     Response("status", AltYearly), Response("exception", NoMainYearly)}

\* What one request may be answered with: those, or another well-formed page.
DailyDeviations == DailyUpsets \cup {Response("ok", AltDaily)}

YearlyDeviations == YearlyUpsets \cup {Response("ok", AltYearly)}

(***************************************************************************)
(* The body of the try statement of the download loops.                    *)
(***************************************************************************)
\* open(file, 'w') and write: the file is created or replaced.
Write(dir, file, text) == (file :> text) @@ dir

\* A test of the response that lets every answered request through.
StoredAnyStatus(r) == r.kind \in {"ok", "status"}

\* if req.status_code == requests.codes.ok: the response is written.  (A
\* request that raised has no response.)
Stored(r) == r.kind = "ok"

\* A try statement that writes whatever came back.
FetchUnchecked(dir, file, r) == Write(dir, file, StrOfBytes(r.content))

\* try: req = requests.get(...); if ok: write str(req.content) else: print
\* except Exception: print.  The directory afterwards: no exception leaves
\* the try statement, both other branches only print.
Fetch(dir, file, r) ==
    IF Stored(r) THEN Write(dir, file, StrOfBytes(r.content)) ELSE dir

\* The seconds slept after a request, were sleep(1) in the success branch.
PauseOnSuccess(kind) == IF kind = "ok" THEN SleepSeconds ELSE 0

\* sleep(1) after the try statement, whatever the request came to.
Pause(kind) == SleepSeconds

\* range(1, 25): the last day forgotten.
DaysExclusive == 1..(LastDay - 1)

\* The days of the inner loop: range(1, 25 + 1).
Days == 1..LastDay

DayCount == Cardinality(Days)

(***************************************************************************)
(* State.                                                                  *)
(***************************************************************************)
Call(fn, download, first, last, devs) ==
    [fn |-> fn, download |-> download, first |-> first, last |-> last, devs |-> devs]

NoOp == Call("none", FALSE, FirstYear, FirstYear, <<>>)

Returned(err, value) == [err |-> err, value |-> value]

Files == [dirs |-> dirs, daily |-> daily_data, yearly |-> yearly_data,
          parquet |-> parquet]

NoFiles == [dirs |-> {}, daily |-> <<>>, yearly |-> <<>>, parquet |-> <<>>]

NeverMade == [daily |-> [done |-> FALSE, table |-> <<>>],
              yearly |-> [done |-> FALSE, table |-> <<>>]]

Logged(y, d, had) ==
    [year |-> y, day |-> d, outcome |-> "pending", had |-> had, content |-> NominalDaily]

Answered(log, r) ==
    [log EXCEPT ![Len(log)] = [@ EXCEPT !.outcome = r.kind, !.content = r.content]]

(***************************************************************************)
(* The download loops as functions of the answers: used where a whole call *)
(* is one step, and to build the stores earlier runs leave behind.         *)
(***************************************************************************)
\* The (year, day) pairs of the loops of download_daily, in loop order.
DailyKeys(first, last) ==
    [i \in 1..((last - first + 1) * DayCount) |->
        <<first + ((i - 1) \div DayCount), 1 + ((i - 1) % DayCount)>>]

\* The years of the loop of download_yearly, in loop order (day 0: no day).
YearlyKeys(first, last) == [i \in 1..(last - first + 1) |-> <<first + i - 1, 0>>]

\* The answer to the request for key k: the deviation planned for it, or the
\* nominal page.
Answer(devs, k, nominal) ==
    IF k \in DOMAIN devs THEN devs[k] ELSE Response("ok", nominal)

\* The file names of a sequence of keys; every file name a download can
\* write, in ascending order, and the key each is the name of.
NamesOfDaily(keys) == [i \in DOMAIN keys |-> DailyFile(keys[i][1], keys[i][2])]

DailyNames == NamesOfDaily(DailyKeys(FirstYear, LastYear))

DailyKeyOf ==
    [f \in {DailyNames[i] : i \in DOMAIN DailyNames} |->
        DailyKeys(FirstYear, LastYear)[CHOOSE i \in DOMAIN DailyNames : DailyNames[i] = f]]

NamesOfYearly(keys) == [i \in DOMAIN keys |-> YearlyFile(keys[i][1])]

YearlyNames == NamesOfYearly(YearlyKeys(FirstYear, LastYear))

YearlyKeyOf ==
    [f \in {YearlyNames[i] : i \in DOMAIN YearlyNames} |->
        YearlyKeys(FirstYear, LastYear)[CHOOSE i \in DOMAIN YearlyNames : YearlyNames[i] = f]]

\* The directory after a download loop over keys (distinct keys, each answered
\* by Answer): the files of the keys whose response is stored hold that
\* response, and every other file is as it was.
Loop(dir, keys, names, keyOf, devs, nominal) ==
    [f \in {names[i] : i \in {j \in DOMAIN keys : Stored(Answer(devs, keys[j], nominal))}} |->
        StrOfBytes(Answer(devs, keyOf[f], nominal).content)] @@ dir

DailyLoop(dir, keys, devs) ==
    Loop(dir, keys, NamesOfDaily(keys), DailyKeyOf, devs, NominalDaily)

\* The directory after download_daily(first, last) with the answers devs plans.
DownloadDaily(dir, first, last, devs) == DailyLoop(dir, DailyKeys(first, last), devs)

YearlyLoop(dir, keys, devs) ==
    Loop(dir, keys, NamesOfYearly(keys), YearlyKeyOf, devs, NominalYearly)

DownloadYearly(dir, first, last, devs) == YearlyLoop(dir, YearlyKeys(first, last), devs)

\* Stores that earlier downloads leave behind.
AfterFirstYear ==
    [dirs |-> {"daily_data", "yearly_data"},
     daily |-> DownloadDaily(<<>>, FirstYear, FirstYear, <<>>),
     yearly |-> DownloadYearly(<<>>, FirstYear, FirstYear, <<>>),
     parquet |-> <<>>]

AfterBothYears ==
    [dirs |-> {"daily_data", "yearly_data"},
     daily |-> DownloadDaily(<<>>, FirstYear, FirstYear + 1,
                             [k \in {<<FirstYear + 1, 1>>} |-> Response("ok", AltDaily)]),
     yearly |-> DownloadYearly(<<>>, FirstYear, FirstYear + 1,
                               [k \in {<<FirstYear + 1, 0>>} |-> Response("ok", AltYearly)]),
     parquet |-> <<>>]

EarlierFiles == <<NoFiles, AfterFirstYear, AfterBothYears>>

(***************************************************************************)
(* One call of download_daily or download_yearly, step by step.            *)
(***************************************************************************)
InitDownload ==
    /\ pc = "idle"
    /\ op = NoOp
    /\ year = FirstYear /\ day = 1
    /\ inflight = 0 /\ reqLog = <<>> /\ slept = 0
    /\ \E i \in DOMAIN EarlierFiles :
         LET e == EarlierFiles[i] IN
         /\ dirs = e.dirs /\ daily_data = e.daily /\ yearly_data = e.yearly
         /\ parquet = e.parquet /\ prev = e
    /\ ret = Returned("none", <<>>)
    /\ listing = "ascending"
    /\ made = NeverMade
    /\ faults = 0 /\ calls = 0
    /\ arg = <<>> /\ res = <<>>

\* Entry of download_daily: the directory is made when missing, the loops start.
download_daily_call ==
    /\ pc = "idle"
    /\ \E first \in Years, last \in Years :
         /\ op' = Call("download_daily", TRUE, first, last, <<>>)
         /\ year' = first
    /\ day' = 1
    /\ calls' = calls + 1
    /\ dirs' = dirs \cup {"daily_data"}
    /\ reqLog' = <<>> /\ slept' = 0
    /\ prev' = Files
    /\ pc' = "request"
    /\ UNCHANGED <<inflight, daily_data, yearly_data, parquet, ret, listing,
                   made, faults, arg, res>>

\* requests.get is called: the request is on the wire.
download_daily_request ==
    /\ pc = "request" /\ op.fn = "download_daily" /\ year <= op.last
    /\ inflight' = inflight + 1
    /\ reqLog' = Append(reqLog,
                        Logged(year, day, DailyFile(year, day) \in DOMAIN daily_data))
    /\ pc' = "wait"
    /\ UNCHANGED <<op, year, day, slept, dirs, daily_data, yearly_data, parquet,
                   ret, listing, prev, made, faults, calls, arg, res>>

\* requests.get returns or raises, and the rest of the try statement runs.
download_daily_respond ==
    /\ pc = "wait" /\ op.fn = "download_daily"
    /\ \E r \in {Response("ok", NominalDaily)} \cup
                (IF faults < MaxFaults /\ day \in FlakySteps
                 THEN DailyDeviations ELSE {}) :
         /\ daily_data' = Fetch(daily_data, DailyFile(year, day), r)
         /\ reqLog' = Answered(reqLog, r)
         /\ faults' = faults + (IF r = Response("ok", NominalDaily) THEN 0 ELSE 1)
    /\ inflight' = inflight - 1
    /\ pc' = "sleep"
    /\ UNCHANGED <<op, year, day, slept, dirs, yearly_data, parquet, ret, listing,
                   prev, made, calls, arg, res>>

\* sleep(1), then the loops advance.
download_daily_sleep ==
    /\ pc = "sleep" /\ op.fn = "download_daily"
    /\ slept' = slept + Pause(reqLog[Len(reqLog)].outcome)
    /\ IF day + 1 \in Days
       THEN day' = day + 1 /\ year' = year
       ELSE day' = 1 /\ year' = year + 1
    /\ pc' = "request"
    /\ UNCHANGED <<op, inflight, reqLog, dirs, daily_data, yearly_data, parquet,
                   ret, listing, prev, made, faults, calls, arg, res>>

\* The loops are over: download_daily returns.
download_daily_return ==
    /\ pc = "request" /\ op.fn = "download_daily" /\ year > op.last
    /\ pc' = "done"
    /\ ret' = Returned("none", <<>>)
    /\ UNCHANGED <<op, year, day, inflight, reqLog, slept, dirs, daily_data,
                   yearly_data, parquet, listing, prev, made, faults, calls, arg, res>>

\* Entry of download_yearly.
download_yearly_call ==
    /\ pc = "idle"
    /\ \E first \in Years, last \in Years :
         /\ op' = Call("download_yearly", TRUE, first, last, <<>>)
         /\ year' = first
    /\ day' = 0
    /\ calls' = calls + 1
    /\ dirs' = dirs \cup {"yearly_data"}
    /\ reqLog' = <<>> /\ slept' = 0
    /\ prev' = Files
    /\ pc' = "request"
    /\ UNCHANGED <<inflight, daily_data, yearly_data, parquet, ret, listing,
                   made, faults, arg, res>>

download_yearly_request ==
    /\ pc = "request" /\ op.fn = "download_yearly" /\ year <= op.last
    /\ inflight' = inflight + 1
    /\ reqLog' = Append(reqLog,
                        Logged(year, 0, YearlyFile(year) \in DOMAIN yearly_data))
    /\ pc' = "wait"
    /\ UNCHANGED <<op, year, day, slept, dirs, daily_data, yearly_data, parquet,
                   ret, listing, prev, made, faults, calls, arg, res>>

download_yearly_respond ==
    /\ pc = "wait" /\ op.fn = "download_yearly"
    /\ \E r \in {Response("ok", NominalYearly)} \cup
                (IF faults < MaxFaults THEN YearlyDeviations ELSE {}) :
         /\ yearly_data' = Fetch(yearly_data, YearlyFile(year), r)
         /\ reqLog' = Answered(reqLog, r)
         /\ faults' = faults + (IF r = Response("ok", NominalYearly) THEN 0 ELSE 1)
    /\ inflight' = inflight - 1
    /\ pc' = "sleep"
    /\ UNCHANGED <<op, year, day, slept, dirs, daily_data, parquet, ret, listing,
                   prev, made, calls, arg, res>>

download_yearly_sleep ==
    /\ pc = "sleep" /\ op.fn = "download_yearly"
    /\ slept' = slept + Pause(reqLog[Len(reqLog)].outcome)
    /\ year' = year + 1
    /\ pc' = "request"
    /\ UNCHANGED <<op, day, inflight, reqLog, dirs, daily_data, yearly_data,
                   parquet, ret, listing, prev, made, faults, calls, arg, res>>

download_yearly_return ==
    /\ pc = "request" /\ op.fn = "download_yearly" /\ year > op.last
    /\ pc' = "done"
    /\ ret' = Returned("none", <<>>)
    /\ UNCHANGED <<op, year, day, inflight, reqLog, slept, dirs, daily_data,
                   yearly_data, parquet, listing, prev, made, faults, calls, arg, res>>

NextDownload ==
    \/ download_daily_call
    \/ download_daily_request
    \/ download_daily_respond
    \/ download_daily_sleep
    \/ download_daily_return
    \/ download_yearly_call
    \/ download_yearly_request
    \/ download_yearly_respond
    \/ download_yearly_sleep
    \/ download_yearly_return

SpecDownload == InitDownload /\ [][NextDownload]_vars

(***************************************************************************)
(* parse_daily, parse_yearly and the tables of make_daily, make_yearly.    *)
(***************************************************************************)
\* A tier split one entry early.
TierFrom99(i) == IF i >= TierSplit THEN "first" ELSE "second"

\* 'first' if i > 99 else 'second', i the zero-based position
Tier(i) == IF i > TierSplit THEN "first" ELSE "second"

\* The list comprehension of parse_daily over one page.
DailyRecords(y, d, page) ==
    [n \in 1..Len(page.divs) |->
        <<y, d, Tier(n - 1),
          DropLast(Strip(page.divs[n].position)),
          LastN(Strip(page.divs[n].time), TimeChars)>>]

\* The list comprehension of parse_yearly over one page.
YearlyRecords(y, page) ==
    [n \in 1..Len(page.anchors) |->
        <<y>> \o Slice(Split(page.anchors[n]), 0, TokenCount)]

Reverse(s) == [i \in 1..Len(s) |-> s[Len(s) + 1 - i]]

\* A listing of the files of the requested years only.
ListRequested(dir, names, order) ==
    LET In(f) == /\ f \in DOMAIN dir
                 /\ ToNumeric(Slice(f, 0, YearChars)) \in op'.first..op'.last
    IN  SelectSeq(names, In)

\* listdir(dir): the files of the directory, in the order of the file system
\* (the directories hold only files that a download wrote).
Ordered(found, order) == IF order = "descending" THEN Reverse(found) ELSE found

ListDir(dir, names, order) ==
    LET In(f) == f \in DOMAIN dir
    IN  Ordered(SelectSeq(names, In), order)

\* One iteration of the loop of parse_daily: the records it adds, or the
\* AttributeError of page.main.find_all when the page has no main element.
ParseDailyFile(dir, file) ==
    LET y == Slice(file, 0, YearChars)
        d == Slice(file, YearChars + 1, YearChars + 3)
        name == y \o <<"-">> \o d \o HtmlSuffix
    IN  IF name \notin DOMAIN dir
        THEN [err |-> "none", records |-> <<>>]
        ELSE LET page == BeautifulSoup(dir[name])
             IN  IF ~page.main
                 THEN [err |-> "AttributeError", records |-> <<>>]
                 ELSE [err |-> "none", records |-> DailyRecords(y, d, page)]

\* One iteration of the loop of parse_yearly: page.main.pre.find_all raises
\* AttributeError when the page has no main or no pre element.
ParseYearlyFile(dir, file) ==
    LET y == Slice(file, 0, YearChars)
        name == y \o <<"-">> \o StatsSuffix
    IN  IF name \notin DOMAIN dir
        THEN [err |-> "none", records |-> <<>>]
        ELSE LET page == BeautifulSoup(dir[name])
             IN  IF ~page.main \/ ~page.pre
                 THEN [err |-> "AttributeError", records |-> <<>>]
                 ELSE [err |-> "none", records |-> YearlyRecords(y, page)]

\* The loop of parse_daily / parse_yearly: the records of the files in listing
\* order, unless an iteration raises.
ParseFiles(per) ==
    IF \E i \in DOMAIN per : per[i].err # "none"
    THEN [err |-> "AttributeError", records |-> <<>>]
    ELSE [err |-> "none", records |-> Flatten([i \in DOMAIN per |-> per[i].records])]

\* parse_daily(): listdir raises FileNotFoundError when ./daily_data/ is missing.
ParseDailyList(dir, files) ==
    ParseFiles([i \in DOMAIN files |-> ParseDailyFile(dir, files[i])])

parse_daily(exists, dir, order) ==
    IF ~exists
    THEN [err |-> "FileNotFoundError", records |-> <<>>]
    ELSE ParseDailyList(dir, ListDir(dir, DailyNames, order))

ParseYearlyList(dir, files) ==
    ParseFiles([i \in DOMAIN files |-> ParseYearlyFile(dir, files[i])])

parse_yearly(exists, dir, order) ==
    IF ~exists
    THEN [err |-> "FileNotFoundError", records |-> <<>>]
    ELSE ParseYearlyList(dir, ListDir(dir, YearlyNames, order))

\* The DataFrame of make_daily: columns named, year/day/position numeric, time
\* a timedelta.
BuildDaily(records) ==
    [i \in DOMAIN records |->
        [year |-> ToNumeric(records[i][1]),
         day |-> ToNumeric(records[i][2]),
         completion |-> records[i][3],
         position |-> ToNumeric(records[i][4]),
         time |-> ToTimedelta(records[i][5])]]

\* The DataFrame of make_yearly: columns named and numeric, first replaced by
\* second + first, then melted: the 'first' rows, then the 'second' rows.
Melt(wide, n) ==
    [j \in 1..(2 * n) |->
        IF j <= n
        THEN [year |-> wide[j].year, day |-> wide[j].day,
              completion |-> "first", count |-> wide[j].first]
        ELSE [year |-> wide[j - n].year, day |-> wide[j - n].day,
              completion |-> "second", count |-> wide[j - n].second]]

\* A build that forgets yearly['first'] = yearly['second'].add(yearly['first']).
BuildYearlyNoAdd(records) ==
    Melt([i \in DOMAIN records |->
             [year |-> ToNumeric(records[i][1]),
              day |-> ToNumeric(records[i][2]),
              second |-> ToNumeric(records[i][3]),
              first |-> ToNumeric(records[i][4])]],
         Len(records))

BuildYearly(records) ==
    Melt([i \in DOMAIN records |->
             [year |-> ToNumeric(records[i][1]),
              day |-> ToNumeric(records[i][2]),
              second |-> ToNumeric(records[i][3]),
              first |-> ToNumeric(records[i][3]) + ToNumeric(records[i][4])]],
         Len(records))

\* DataFrame.to_parquet and pd.read_parquet
ToParquet(table) == [format |-> "parquet", rows |-> table]

ReadParquet(blob) == blob.rows

(***************************************************************************)
(* The top-level calls make_daily, make_yearly, get_daily, get_yearly, one *)
(* step each: the program is single-threaded and a call runs to its end.   *)
(***************************************************************************)
Init ==
    /\ pc = "idle"
    /\ op = NoOp
    /\ year = FirstYear /\ day = 1
    /\ inflight = 0 /\ reqLog = <<>> /\ slept = 0
    /\ dirs = {} /\ daily_data = <<>> /\ yearly_data = <<>> /\ parquet = <<>>
    /\ prev = NoFiles
    /\ ret = Returned("none", <<>>)
    /\ listing \in {"ascending", "descending"}
    /\ made = NeverMade
    /\ faults = 0 /\ calls = 0
    /\ arg = <<>> /\ res = <<>>

\* The answers a download of first..last may get that are not the nominal
\* page: at most as many as the fault budget leaves, on flaky keys only.
Plans(first, last, flaky, deviations) ==
    LET keys == {<<y, d>> : y \in first..last, d \in flaky}
        some == {K \in SUBSET keys : Cardinality(K) <= MaxFaults - faults}
    IN  UNION {[K -> deviations] : K \in some}

\* pd.read_parquet('yearly.parquet') in place of 'daily.parquet'
ReadOther(file) ==
    LET other == IF file = "daily.parquet" THEN "yearly.parquet" ELSE "daily.parquet"
    IN  IF other \in DOMAIN parquet
        THEN Returned("none", ReadParquet(parquet[other]))
        ELSE Returned("FileNotFoundError", <<>>)

\* pd.read_parquet(file)
Read(file) ==
    IF file \in DOMAIN parquet
    THEN Returned("none", ReadParquet(parquet[file]))
    ELSE Returned("FileNotFoundError", <<>>)

\* The end of make_daily and make_yearly: the table t is written to file and
\* returned.
Persist(file, dataset, t) ==
    /\ ret' = Returned("none", t)
    /\ parquet' = Write(parquet, file, ToParquet(t))
    /\ made' = [made EXCEPT ![dataset] = [done |-> TRUE, table |-> t]]

\* make_daily after the download: p is what parse_daily returns or raises.
FinishDaily(p) ==
    IF p.err # "none"
    THEN ret' = Returned(p.err, <<>>) /\ UNCHANGED <<parquet, made>>
    ELSE Persist("daily.parquet", "daily", BuildDaily(p.records))

\* make_daily(download, first_year, last_year), the answers of the network
\* being those of devs.
MakeDaily(download, first, last, devs) ==
    /\ op' = Call("make_daily", download, first, last, devs)
    /\ daily_data' = IF download THEN DownloadDaily(daily_data, first, last, devs)
                     ELSE daily_data
    /\ dirs' = IF download THEN dirs \cup {"daily_data"} ELSE dirs
    /\ faults' = faults + Cardinality(DOMAIN devs)
    /\ FinishDaily(parse_daily("daily_data" \in dirs', daily_data', listing))

make_daily ==
    /\ pc = "idle" /\ calls < MaxCalls
    /\ \/ \E first \in Years, last \in Years :
            \E devs \in Plans(first, last, FlakyDays, DailyUpsets) :
               MakeDaily(TRUE, first, last, devs)
       \/ MakeDaily(FALSE, FirstYear, LastYear, <<>>)
    /\ calls' = calls + 1
    /\ prev' = Files
    /\ UNCHANGED <<pc, year, day, inflight, reqLog, slept, yearly_data, listing,
                   arg, res>>

get_daily ==
    /\ pc = "idle" /\ calls < MaxCalls
    /\ op' = Call("get_daily", FALSE, FirstYear, LastYear, <<>>)
    /\ ret' = Read("daily.parquet")
    /\ calls' = calls + 1
    /\ prev' = Files
    /\ UNCHANGED <<pc, year, day, inflight, reqLog, slept, dirs, daily_data,
                   yearly_data, parquet, listing, made, faults, arg, res>>

FinishYearly(p) ==
    IF p.err # "none"
    THEN ret' = Returned(p.err, <<>>) /\ UNCHANGED <<parquet, made>>
    ELSE Persist("yearly.parquet", "yearly", BuildYearly(p.records))

MakeYearly(download, first, last, devs) ==
    /\ op' = Call("make_yearly", download, first, last, devs)
    /\ yearly_data' = IF download THEN DownloadYearly(yearly_data, first, last, devs)
                      ELSE yearly_data
    /\ dirs' = IF download THEN dirs \cup {"yearly_data"} ELSE dirs
    /\ faults' = faults + Cardinality(DOMAIN devs)
    /\ FinishYearly(parse_yearly("yearly_data" \in dirs', yearly_data', listing))

make_yearly ==
    /\ pc = "idle" /\ calls < MaxCalls
    /\ \/ \E first \in Years, last \in Years :
            \E devs \in Plans(first, last, {0}, YearlyUpsets) :
               MakeYearly(TRUE, first, last, devs)
       \/ MakeYearly(FALSE, FirstYear, LastYear, <<>>)
    /\ calls' = calls + 1
    /\ prev' = Files
    /\ UNCHANGED <<pc, year, day, inflight, reqLog, slept, daily_data, listing,
                   arg, res>>

get_yearly ==
    /\ pc = "idle" /\ calls < MaxCalls
    /\ op' = Call("get_yearly", FALSE, FirstYear, LastYear, <<>>)
    /\ ret' = Read("yearly.parquet")
    /\ calls' = calls + 1
    /\ prev' = Files
    /\ UNCHANGED <<pc, year, day, inflight, reqLog, slept, dirs, daily_data,
                   yearly_data, parquet, listing, made, faults, arg, res>>

Next ==
    \/ make_daily
    \/ get_daily
    \/ make_yearly
    \/ get_yearly

Spec == Init /\ [][Next]_vars

(***************************************************************************)
(* parse_daily alone, on a store holding one page of any number of entries.*)
(***************************************************************************)
ExtractKeys == {<<FirstYear, 1>>, <<LastYear, LastDay>>}

InitExtract ==
    /\ pc = "idle"
    /\ op = NoOp
    /\ year = FirstYear /\ day = 1
    /\ inflight = 0 /\ reqLog = <<>> /\ slept = 0
    /\ dirs = {"daily_data"}
    /\ \E n \in 0..MaxEntries, clock \in {Clock1, Clock2}, k \in ExtractKeys :
         /\ arg = [key |-> k, clock |-> clock, page |-> DailyPage(n, clock)]
         /\ daily_data = Write(<<>>, DailyFile(k[1], k[2]), StrOfBytes(DailyPage(n, clock)))
    /\ yearly_data = <<>> /\ parquet = <<>>
    /\ prev = NoFiles
    /\ ret = Returned("none", <<>>)
    /\ listing = "ascending"
    /\ made = NeverMade
    /\ faults = 0 /\ calls = 0
    /\ res = <<>>

parse_daily_call ==
    /\ pc = "idle"
    /\ op' = Call("parse_daily", FALSE, FirstYear, LastYear, <<>>)
    /\ res' = parse_daily("daily_data" \in dirs, daily_data, listing)
    /\ pc' = "done"
    /\ UNCHANGED <<year, day, inflight, reqLog, slept, dirs, daily_data, yearly_data,
                   parquet, ret, listing, prev, made, faults, calls, arg>>

NextExtract == parse_daily_call

SpecExtract == InitExtract /\ [][NextExtract]_vars

(***************************************************************************)
(* The table build of make_yearly alone, on any short sequence of tuples.  *)
(***************************************************************************)
SecondTokens == {<<"0">>, <<"5", "0">>, <<"-", "3">>}

FirstTokens == {<<"1", "0">>, <<"-", "3">>}

\* (year, day, second, first) as parse_yearly returns them: strings.
YearlyTuples ==
    {<<y, d, s, f>> : y \in {Str(FirstYear)}, d \in {Str(1), Str(LastDay)},
                      s \in SecondTokens, f \in FirstTokens}

InitBuild ==
    /\ pc = "idle"
    /\ op = NoOp
    /\ year = FirstYear /\ day = 1
    /\ inflight = 0 /\ reqLog = <<>> /\ slept = 0
    /\ dirs = {} /\ daily_data = <<>> /\ yearly_data = <<>> /\ parquet = <<>>
    /\ prev = NoFiles
    /\ ret = Returned("none", <<>>)
    /\ listing = "ascending"
    /\ made = NeverMade
    /\ faults = 0 /\ calls = 0
    /\ \E n \in 0..MaxTuples : arg \in [1..n -> YearlyTuples]
    /\ res = <<>>

\* Lines 175 to 179 of make_yearly on the tuples arg.
make_yearly_build ==
    /\ pc = "idle"
    /\ op' = Call("make_yearly_build", FALSE, FirstYear, LastYear, <<>>)
    /\ res' = BuildYearly(arg)
    /\ pc' = "done"
    /\ UNCHANGED <<year, day, inflight, reqLog, slept, dirs, daily_data, yearly_data,
                   parquet, ret, listing, prev, made, faults, calls, arg>>

NextBuild == make_yearly_build

SpecBuild == InitBuild /\ [][NextBuild]_vars

(***************************************************************************)
(* Properties.                                                             *)
(***************************************************************************)
\* The store a download call writes to, now and when the call began, and the
\* file of a logged request.
StoreNow == IF op.fn = "download_daily" THEN daily_data ELSE yearly_data

StoreBefore == IF op.fn = "download_daily" THEN prev.daily ELSE prev.yearly

FileOf(e) == IF op.fn = "download_daily" THEN DailyFile(e.year, e.day)
             ELSE YearlyFile(e.year)

Failed(e) == e.outcome \in {"status", "exception"}

\* The answers a finished download call got, as a plan for the whole call.
PlanOfLog(nominal) ==
    LET odd == {i \in DOMAIN reqLog :
                    Response(reqLog[i].outcome, reqLog[i].content) # Response("ok", nominal)}
    IN  [k \in {<<reqLog[i].year, reqLog[i].day>> : i \in odd} |->
            LET i == CHOOSE j \in odd : <<reqLog[j].year, reqLog[j].day>> = k
            IN  Response(reqLog[i].outcome, reqLog[i].content)]

\* The loops taken request by request leave the directory that the loops as a
\* function of the answers give.
LoopAgrees ==
    /\ (pc = "done" /\ op.fn = "download_daily") =>
          daily_data = DownloadDaily(prev.daily, op.first, op.last, PlanOfLog(NominalDaily))
    /\ (pc = "done" /\ op.fn = "download_yearly") =>
          yearly_data = DownloadYearly(prev.yearly, op.first, op.last, PlanOfLog(NominalYearly))

\* C1: in download_daily and download_yearly, a request that comes back with a
\* non-OK status or raises writes nothing under its key (the key's file is as
\* it was when the call began), no exception leaves the function, and every
\* (year, unit) of the range is requested all the same.
C1_FailuresContained ==
    /\ \A i \in DOMAIN reqLog :
          Failed(reqLog[i]) =>
             LET f == FileOf(reqLog[i])
             IN  /\ (f \in DOMAIN StoreNow) = (f \in DOMAIN StoreBefore)
                 /\ f \in DOMAIN StoreNow => StoreNow[f] = StoreBefore[f]
    /\ ret.err = "none"
    /\ (pc = "done" /\ op.fn = "download_daily") =>
          \A y \in op.first..op.last, d \in 1..25 :
             \E i \in DOMAIN reqLog : reqLog[i].year = y /\ reqLog[i].day = d
    /\ (pc = "done" /\ op.fn = "download_yearly") =>
          \A y \in op.first..op.last : \E i \in DOMAIN reqLog : reqLog[i].year = y

\* C1 witness: a daily download over two years whose first request raised has
\* returned, having gone on to all fifty keys.
C1_Witness ==
    /\ pc = "done" /\ op.fn = "download_daily"
    /\ Len(reqLog) = 50
    /\ reqLog[1].outcome = "exception"
    /\ reqLog[50].outcome = "ok"

\* C3: every request is followed by exactly one 1-second sleep before the next
\* request is issued, whatever its outcome, and at most one request is
\* outstanding: when a request is issued every earlier one has been slept
\* after, one second each.
C3_OneSleepPerRequest ==
    /\ inflight \in {0, 1}
    /\ (inflight = 1) = (pc = "wait")
    /\ pc \in {"request", "done"} => slept = 1 * Len(reqLog)
    /\ pc \in {"wait", "sleep"} => slept = 1 * (Len(reqLog) - 1)

\* C3 witness: the second request is on the wire after the first one failed
\* with a non-OK status, and one second has been slept.
C3_Witness ==
    /\ pc = "wait" /\ inflight = 1
    /\ Len(reqLog) = 2
    /\ reqLog[1].outcome = "status"
    /\ slept = 1

\* C8: download_daily requests each (year, day) of first_year..last_year and
\* 1..25 exactly once, in ascending year then ascending day order, and
\* download_yearly each year of the range exactly once; no key is requested a
\* second time whatever its request came to.
C8_OneRequestPerKey ==
    /\ \A i \in DOMAIN reqLog, j \in DOMAIN reqLog :
          i < j => \/ reqLog[i].year < reqLog[j].year
                   \/ reqLog[i].year = reqLog[j].year /\ reqLog[i].day < reqLog[j].day
    /\ \A i \in DOMAIN reqLog :
          /\ reqLog[i].year \in op.first..op.last
          /\ reqLog[i].day \in (IF op.fn = "download_daily" THEN 1..25 ELSE {0})
    /\ (pc = "done" /\ op.fn = "download_daily") =>
          Len(reqLog) = 25 * Cardinality(op.first..op.last)
    /\ (pc = "done" /\ op.fn = "download_yearly") =>
          Len(reqLog) = Cardinality(op.first..op.last)

\* C8 witness: a daily download of one year has returned after 25 requests,
\* the last of them, for day 25, answered with a non-OK status.
C8_Witness ==
    /\ pc = "done" /\ op.fn = "download_daily"
    /\ op.first = op.last
    /\ Len(reqLog) = 25
    /\ reqLog[25].day = 25 /\ reqLog[25].outcome = "status"

\* C9 as stated: after a download, the file of every key whose request came
\* back OK holds the body of that response.
C9_StoreHoldsBody ==
    \A i \in DOMAIN reqLog :
       reqLog[i].outcome = "ok" =>
          /\ FileOf(reqLog[i]) \in DOMAIN StoreNow
          /\ StoreNow[FileOf(reqLog[i])] = Verbatim(reqLog[i].content)

\* C4: a daily page with N entry blocks gives exactly N tuples, in document
\* order; the tuple at zero-based position i has tier 'second' when i <= 99
\* and 'first' when i >= 100.
C4_TuplesPerEntry ==
    (pc = "done" /\ op.fn = "parse_daily") =>
       LET n == Len(arg.page.divs)
       IN  /\ res.err = "none"
           /\ Len(res.records) = n
           /\ \A i \in 0..(n - 1) :
                 LET t == res.records[i + 1]
                 IN  /\ i <= 99 => t[3] = "second"
                     /\ i >= 100 => t[3] = "first"
                     /\ t[1] = Str(arg.key[1])
                     /\ t[2] = ZFill(Str(arg.key[2]), 2)
                     /\ t[4] = Str(i + 1)
                     /\ t[5] = arg.clock

\* C4 witness: a page of 101 entries has been parsed into 101 tuples, the
\* hundredth 'second' and the last 'first'.
C4_Witness ==
    /\ pc = "done" /\ op.fn = "parse_daily"
    /\ Len(arg.page.divs) = 101
    /\ Len(res.records) = 101
    /\ res.records[100][3] = "second"
    /\ res.records[101][3] = "first"

\* The rows of a built yearly table for the key of a tuple.
RowsOf(table, t) ==
    {j \in DOMAIN table : /\ table[j].year = ToNumeric(t[1])
                          /\ table[j].day = ToNumeric(t[2])}

\* C6 as stated: for every sequence of yearly tuples the table has exactly two
\* rows per (year, day), 'second' with count s and 'first' with count s + d,
\* each count non-negative and 'first' never below 'second'.
C6_TwoRowsPerKey ==
    (pc = "done" /\ op.fn = "make_yearly_build") =>
       \A i \in DOMAIN arg :
          LET rows == RowsOf(res, arg[i])
          IN  /\ Cardinality(rows) = 2
              /\ \E a \in rows, b \in rows :
                    /\ res[a].completion = "second"
                    /\ res[a].count = ToNumeric(arg[i][3])
                    /\ res[b].completion = "first"
                    /\ res[b].count = ToNumeric(arg[i][3]) + ToNumeric(arg[i][4])
                    /\ res[a].count >= 0
                    /\ res[b].count >= res[a].count

\* C6 amended: the table has two rows per tuple, 'second' with count s and
\* 'first' with count s + d; they are the only rows of their (year, day) when
\* no other tuple has that (year, day), and the counts are non-negative with
\* 'first' not below 'second' when s and d are unsigned decimal numerals.
C6_TwoRowsPerTuple ==
    (pc = "done" /\ op.fn = "make_yearly_build") =>
       /\ Len(res) = 2 * Len(arg)
       /\ \A i \in DOMAIN arg :
             LET rows == RowsOf(res, arg[i])
                 alone == \A k \in DOMAIN arg :
                             (arg[k][1] = arg[i][1] /\ arg[k][2] = arg[i][2]) => k = i
                 unsigned == IsNumeric(arg[i][3]) /\ IsNumeric(arg[i][4])
             IN  /\ \E a \in rows, b \in rows :
                       /\ res[a].completion = "second"
                       /\ res[a].count = ToNumeric(arg[i][3])
                       /\ res[b].completion = "first"
                       /\ res[b].count = ToNumeric(arg[i][3]) + ToNumeric(arg[i][4])
                       /\ unsigned => res[a].count >= 0 /\ res[b].count >= res[a].count
                 /\ alone => Cardinality(rows) = 2

\* C6 witness: the tuple (2015, 1, "50", "10") has been built into the rows
\* (2015, 1, second, 50) and (2015, 1, first, 60).
C6_Witness ==
    /\ pc = "done" /\ op.fn = "make_yearly_build"
    /\ arg = <<<<Str(2015), Str(1), <<"5", "0">>, <<"1", "0">>>>>>
    /\ {res[j] : j \in DOMAIN res} =
          {[year |-> 2015, day |-> 1, completion |-> "second", count |-> 50],
           [year |-> 2015, day |-> 1, completion |-> "first", count |-> 60]}

\* The (year, day) pairs that have a row in a table.
KeysIn(table) == {<<table[j].year, table[j].day>> : j \in DOMAIN table}

YearsIn(table) == {table[j].year : j \in DOMAIN table}

\* C2 as stated: when the request for a (year, unit) comes back with a non-OK
\* status during a make run, the table of that run has no row for it, whatever
\* the store held before.
C2_NoRowAfterNonOk ==
    /\ (op.fn = "make_daily" /\ op.download /\ ret.err = "none") =>
          \A k \in DOMAIN op.devs :
             op.devs[k].kind = "status" => k \notin KeysIn(ret.value)
    /\ (op.fn = "make_yearly" /\ op.download /\ ret.err = "none") =>
          \A k \in DOMAIN op.devs :
             op.devs[k].kind = "status" => k[1] \notin YearsIn(ret.value)

\* C2 amended: when the request for a (year, unit) comes back with a non-OK
\* status during a make run, the store keeps under that key what it held
\* before the run, and the table of the run has no row for the key provided
\* the store held no page under it before the run.
C2_NoRowForUnstoredKey ==
    /\ (op.fn = "make_daily" /\ op.download) =>
          \A k \in DOMAIN op.devs :
             op.devs[k].kind = "status" =>
                LET f == DailyFile(k[1], k[2])
                IN  IF f \in DOMAIN prev.daily
                    THEN f \in DOMAIN daily_data /\ daily_data[f] = prev.daily[f]
                    ELSE /\ f \notin DOMAIN daily_data
                         /\ ret.err = "none" => k \notin KeysIn(ret.value)
    /\ (op.fn = "make_yearly" /\ op.download) =>
          \A k \in DOMAIN op.devs :
             op.devs[k].kind = "status" =>
                LET f == YearlyFile(k[1])
                IN  IF f \in DOMAIN prev.yearly
                    THEN f \in DOMAIN yearly_data /\ yearly_data[f] = prev.yearly[f]
                    ELSE /\ f \notin DOMAIN yearly_data
                         /\ ret.err = "none" => k[1] \notin YearsIn(ret.value)

\* C2 witness: a make_daily over a store that held nothing for day 1 of the
\* first year got a non-OK status for it and built a table of the other days.
C2_Witness ==
    /\ op.fn = "make_daily" /\ op.download /\ ret.err = "none"
    /\ <<FirstYear, 1>> \in DOMAIN op.devs
    /\ op.devs[<<FirstYear, 1>>].kind = "status"
    /\ DailyFile(FirstYear, 1) \notin DOMAIN prev.daily
    /\ <<FirstYear, 2>> \in KeysIn(ret.value)
    /\ <<FirstYear, 1>> \notin KeysIn(ret.value)

\* C5 as stated: a stored page without its container markup (no main element
\* for daily; no main or no pre element for yearly) gives no tuple and no
\* error, and the make goes on to build its table from the other pages.
C5_MissingMarkupSilent ==
    /\ (op.fn = "make_daily"
          /\ \E f \in DOMAIN daily_data : ~BeautifulSoup(daily_data[f]).main)
       => ret.err = "none"
    /\ (op.fn = "make_yearly"
          /\ \E f \in DOMAIN yearly_data :
                ~BeautifulSoup(yearly_data[f]).main \/ ~BeautifulSoup(yearly_data[f]).pre)
       => ret.err = "none"

EntriesOf(f, page) ==
    {<<DailyKeyOf[f][1], DailyKeyOf[f][2], n>> : n \in 1..Len(page.divs)}

TriplesIn(table) ==
    {<<table[j].year, table[j].day, table[j].position>> : j \in DOMAIN table}

DailyCovered(triples) ==
    \A f \in DOMAIN daily_data : EntriesOf(f, BeautifulSoup(daily_data[f])) \subseteq triples

YearlyCovered(pairs) ==
    \A f \in DOMAIN yearly_data :
       \A n \in 1..Len(BeautifulSoup(yearly_data[f]).anchors) :
          <<YearlyKeyOf[f][1],
            ToNumeric(Split(BeautifulSoup(yearly_data[f]).anchors[n])[1])>> \in pairs

\* C10: first_year / last_year of make_daily and make_yearly restrict only
\* what is fetched: the table holds the rows of every stored page, those of
\* years outside the range included, and the download leaves every stored
\* file of a year outside the range as it was.
C10_RangeOnlyRestrictsFetch ==
    /\ (op.fn = "make_daily" /\ ret.err = "none") => DailyCovered(TriplesIn(ret.value))
    /\ (op.fn = "make_yearly" /\ ret.err = "none") => YearlyCovered(KeysIn(ret.value))
    /\ op.fn = "make_daily" =>
          \A f \in DOMAIN prev.daily :
             DailyKeyOf[f][1] \notin op.first..op.last =>
                f \in DOMAIN daily_data /\ daily_data[f] = prev.daily[f]
    /\ op.fn = "make_yearly" =>
          \A f \in DOMAIN prev.yearly :
             YearlyKeyOf[f][1] \notin op.first..op.last =>
                f \in DOMAIN yearly_data /\ yearly_data[f] = prev.yearly[f]

\* C10 witness: a make_daily asked for the second year only, over a store
\* holding pages of the first year, built a table with rows of both years.
C10_Witness ==
    /\ op.fn = "make_daily" /\ op.download
    /\ op.first = LastYear /\ op.last = LastYear
    /\ ret.err = "none"
    /\ DailyFile(FirstYear, LastDay) \in DOMAIN prev.daily
    /\ <<FirstYear, LastDay>> \in KeysIn(ret.value)
    /\ <<LastYear, 1>> \in KeysIn(ret.value)

====
